---- MODULE Spec2Model ----
(***************************************************************************)
(* Invoice notification delivery pipeline: the 'send-invoice' handler of   *)
(* workers/invoice-worker.js, the routes that enqueue it (POST / and       *)
(* POST /:id/send of routes/invoices.js), the in-process MockQueue that    *)
(* runs the handler inline, and the tables of utils/db.js they write.      *)
(*                                                                         *)
(* One request is served by one slot.  Every action is one stretch of      *)
(* JavaScript between two awaits that touch shared state (the database,    *)
(* the storage directory, the emailService / smsService singletons), so    *)
(* the requests of different slots interleave exactly where the event loop *)
(* lets them.                                                              *)
(***************************************************************************)
EXTENDS Integers, Sequences, FiniteSets, TLC

\* ---------------------------------------------------------------- bounds
MaxJobs == 2          \* jobs handed to the queue in one behaviour
MaxInvoices == 1      \* invoices created in one behaviour
MaxTime == 1
MaxIds == 2         \* invoice ids of the retrieval requests
MaxDays == 2        \* expiryDays handed to generateSignedUrl
MaxMinted == 1      \* tokens generateSignedUrl is asked for
MaxConcurrency == 2 \* concurrency handed to MockQueue.process
MaxAdds == 3        \* calls of MockQueue.add
MaxClock == 48      \* last instant of the retrieval clock, in hours
ClockStep == 12     \* hours between two instants of the retrieval clock          \* hours the clock advances

\* ------------------------------------------------------ program constants
LookbackHours == 1    \* datetime('now', '-1 hour') of POST /:id/send

SlotOrder == <<"a", "b">>             \* requests the event loop interleaves
Slots == {SlotOrder[n] : n \in 1..Len(SlotOrder)}

EmailProviders == {"sendgrid", "mailgun", "ses"}
SmsProviders == {"twilio", "vonage"}
Phones == {"none", "valid", "invalid"}

NoSettings == [present |-> FALSE, email_enabled |-> FALSE, sms_enabled |-> FALSE,
               auto_send_on_create |-> FALSE, email_provider |-> "sendgrid",
               sms_provider |-> "twilio"]

\* rows SELECT * FROM invoice_settings WHERE id = 1 can return; the provider
\* of a disabled channel is never read and keeps the column's default
SettingsRows ==
  {r \in [present : {TRUE}, email_enabled : BOOLEAN, sms_enabled : BOOLEAN,
          auto_send_on_create : BOOLEAN, email_provider : EmailProviders,
          sms_provider : SmsProviders] :
     /\ ~r.email_enabled => r.email_provider = "sendgrid"
     /\ ~r.sms_enabled => r.sms_provider = "twilio"}

\* the settings under which requests are explored overlapping each other (two
\* slots busy at once); under every other row requests are served in turn
OverlapSettings ==
  {r \in SettingsRows : /\ r.email_enabled /\ r.email_provider = "sendgrid"
                        /\ ~r.sms_enabled}

\* results of the customer_preferences lookup: the query throws (no such
\* table, prefs stays null) or finds no row, or it finds a row
PrefsResults ==
  [found : {FALSE}, email_unsubscribed : {FALSE}, sms_opt_in : {FALSE}]
    \cup [found : {TRUE}, email_unsubscribed : BOOLEAN, sms_opt_in : BOOLEAN]

\* let prefs = null
NoPrefs == [found |-> FALSE, email_unsubscribed |-> FALSE, sms_opt_in |-> FALSE]

NoLocals == [settings |-> NoSettings, pdfBuffer |-> FALSE,
             invoiceUrl |-> FALSE, emailLog |-> 0, smsLog |-> 0, error |-> "none"]

VARIABLES
  now,              \* the database clock, in hours
  invoice_settings, \* the settings row (id = 1)
  flagColumns,      \* migration 002 added email_sent / sms_sent to invoices
  invoices,         \* table invoices, indexed by id
  send_logs,        \* table send_logs, indexed by id
  invoice_files,    \* table invoice_files, indexed by id
  storage,          \* storage directory: invoice id -> job whose bytes are stored
  emailProviderName,\* emailService.providerName (singleton)
  smsProviderName,  \* smsService.providerName (singleton)
  jobs,             \* the jobs handed to invoiceQueue.add, indexed by job id
  pc,               \* per slot: position in the route / the handler
  req,              \* per slot: the request served, the invoice id, the job id
  loc,              \* per slot: the handler's local variables
  minted,           \* the tokens generateSignedUrl has returned to its callers
  response,         \* the answer to the latest retrieval request
  processor,        \* MockQueue.processor
  added,            \* the calls of MockQueue.add a caller made, in order
  concurrency,      \* the concurrency handed to MockQueue.process
  closed            \* whether MockQueue.close has resolved, and over what

vars == <<now, invoice_settings, flagColumns, invoices, send_logs, invoice_files,
          storage, emailProviderName, smsProviderName, jobs,
          pc, req, loc, minted, response, processor, added,
          concurrency, closed>>

db == <<invoices, send_logs, invoice_files, storage>>
services == <<emailProviderName, smsProviderName>>
env == <<now, invoice_settings, flagColumns, minted, response, processor, added,
         concurrency, closed>>

NoRequest == [kind |-> "none", invoiceId |-> 0, job |-> 0]

\* this.processor = null, and the handler workers/invoice-worker.js registers
\* when server.js loads it
NoProcessor == "null"
SendInvoice == "send-invoice"

\* config.queue.concurrentJobs: parseInt(process.env.QUEUE_CONCURRENT_JOBS) || 5
DefaultConcurrency == 5

\* close() has not been called
NotClosed == [called |-> FALSE, inflight |-> 0]

\* req.query.token is undefined
NoToken == [missing |-> TRUE]
NoResponse == [route |-> "none", invoiceId |-> 0, token |-> NoToken, at |-> 0,
               status |-> 0, body |-> "none"]

Init ==
  /\ now = 0
  /\ invoice_settings \in SettingsRows \cup {NoSettings}
  /\ flagColumns \in BOOLEAN
  /\ invoices = << >>
  /\ send_logs = << >>
  /\ invoice_files = << >>
  /\ storage = [i \in 1..MaxInvoices |-> 0]
  /\ emailProviderName = "null"
  /\ smsProviderName = "null"
  /\ jobs = << >>
  /\ pc = [s \in Slots |-> "idle"]
  /\ req = [s \in Slots |-> NoRequest]
  /\ loc = [s \in Slots |-> NoLocals]
  /\ minted = {}
  /\ response = NoResponse
  /\ processor = SendInvoice
  /\ added = << >>
  /\ concurrency = DefaultConcurrency
  /\ closed = NotClosed

\* ------------------------------------------------------------- the clock
Tick ==
  /\ now < MaxTime
  /\ \A s \in Slots : pc[s] = "idle"
  /\ now' = now + 1
  /\ UNCHANGED <<invoice_settings, flagColumns, db, services, jobs,
                 pc, req, loc, minted, response, processor, added,
                 concurrency, closed>>

\* ------------------------------------------------------------- helpers
Upd(f, s, v) == [f EXCEPT ![s] = v]

\* the slot an arriving request is served in: the first idle one.  Requests
\* overlap under OverlapSettings with the flag columns in place; otherwise a
\* request arrives when the one before it has been answered
FreeSlot(s) ==
  /\ pc[s] = "idle"
  /\ \/ invoice_settings \in OverlapSettings /\ flagColumns
     \/ \A t \in Slots : pc[t] = "idle"
  /\ \A n \in 1..Len(SlotOrder) :
       SlotOrder[n] = s => \A m \in 1..(n - 1) : pc[SlotOrder[m]] # "idle"

\* requests that may still hand a job to the queue
Pending == Cardinality({s \in Slots : pc[s] \in {"c_settings", "s_fetch"}})

Accept(s, k, i) ==
  /\ Len(jobs) + Pending < MaxJobs
  /\ req' = Upd(req, s, [kind |-> k, invoiceId |-> i, job |-> 0])

\* the slot is free again
Free(s) ==
  /\ pc' = Upd(pc, s, "idle")
  /\ req' = Upd(req, s, NoRequest)
  /\ loc' = Upd(loc, s, NoLocals)

\* what the route answers once invoiceQueue.add has resolved or rejected: the
\* error middleware of server.js answers err.status || 500
HttpFor(k, state) ==
  IF state = "failed" THEN 500 ELSE IF k = "create" THEN 201 ELSE 200

\* the idempotency query of POST /:id/send
RecentSend(i) ==
  {r \in 1..Len(send_logs) :
     /\ send_logs[r].invoice_id = i
     /\ send_logs[r].send_type = "email"
     /\ send_logs[r].status \in {"sent", "delivered"}
     /\ send_logs[r].created_at > now - LookbackHours}

\* MockQueue.add with the processor registered: the handler runs inline
QueueAdd(s, items, trigger) ==
  /\ jobs' = Append(jobs, [invoiceId |-> req[s].invoiceId, items |-> items,
                           triggerType |-> trigger,
                           prefs |-> NoPrefs, send_status |-> "none",
                           state |-> "running", result |-> "none", http |-> 0,
                           progress |-> << >>, calls |-> << >>])
  /\ req' = Upd(req, s, [req[s] EXCEPT !.job = Len(jobs) + 1])
  /\ pc' = Upd(pc, s, "w_start")

\* the handler returned (completed) or threw (failed); add resolves or
\* rejects and the route answers
\* left: the send_status the invoice holds as the handler returns or throws
Ended(log, s, state, value, reported, left) ==
  [log EXCEPT ![req[s].job].state = state,
              ![req[s].job].result = value,
              ![req[s].job].progress = @ \o reported,
              ![req[s].job].send_status = left,
              ![req[s].job].http = HttpFor(req[s].kind, state)]

Finish(s, state, value, reported) ==
  /\ jobs' = Ended(jobs, s, state, value, reported,
                   invoices'[req[s].invoiceId].send_status)
  /\ Free(s)

\* job.progress(percent)
Reported(log, s, values) == [log EXCEPT ![req[s].job].progress = @ \o values]

Report(s, values) == Reported(jobs, s, values)

\* --------------------------------------------------------- POST /api/invoices
\* the phone numbers an invoice is created with: customerPhone is read by the
\* SMS stage alone, and only when sms_enabled is set
PhonesRead ==
  IF invoice_settings.sms_enabled THEN Phones ELSE {"none"}

\* INSERT INTO invoices.  body('customerEmail').isEmail() has passed, so every
\* invoice carries an address and invoiceData.customerEmail is truthy in the
\* handler
CreateInvoice(s) ==
  /\ FreeSlot(s)
  /\ Len(invoices) < MaxInvoices
  /\ \E phone \in PhonesRead :
       invoices' = Append(invoices, [send_status |-> "pending", email_sent |-> FALSE,
                                     sms_sent |-> FALSE, customerPhone |-> phone])
  /\ Accept(s, "create", Len(invoices) + 1)
  /\ pc' = Upd(pc, s, "c_settings")
  /\ UNCHANGED <<env, send_logs, invoice_files, storage, services, jobs, loc>>

\* variant: the route enqueues whatever the setting says
AutoSendAlways == TRUE

\* if (settings?.auto_send_on_create)
AutoSend == invoice_settings.present /\ invoice_settings.auto_send_on_create

CreateQueue(s) ==
  /\ pc[s] = "c_settings"
  /\ IF AutoSend
       THEN /\ QueueAdd(s, "array", "none")
            /\ UNCHANGED loc
       \* res.status(201) without a job
       ELSE /\ Free(s)
            /\ UNCHANGED jobs
  /\ UNCHANGED <<env, db, services>>

\* ------------------------------------------------ POST /api/invoices/:id/send
\* variant: the route goes on to fetch the invoice whatever send_logs holds
SendCheckAlways(s, i) ==
  /\ FreeSlot(s)
  /\ Accept(s, "send", i)
  /\ pc' = Upd(pc, s, "s_fetch")
  /\ UNCHANGED <<env, db, services, jobs, loc>>

\* the idempotency query, awaited
SendCheck(s, i) ==
  /\ FreeSlot(s)
  /\ IF RecentSend(i) # {}
       THEN /\ req' = Upd(req, s, [kind |-> "send", invoiceId |-> i, job |-> 0])
            /\ pc' = Upd(pc, s, "s_recent")
       ELSE /\ Accept(s, "send", i)
            /\ pc' = Upd(pc, s, "s_fetch")
  /\ UNCHANGED <<env, db, services, jobs, loc>>

\* res.status(200) with the row found: 'Invoice was already sent recently'
SendRecent(s) ==
  /\ pc[s] = "s_recent"
  /\ Free(s)
  /\ UNCHANGED <<env, db, services, jobs>>

SendFetch(s) ==
  /\ pc[s] = "s_fetch"
  /\ IF req[s].invoiceId <= Len(invoices)
       THEN /\ QueueAdd(s, "string", "manual")
            /\ UNCHANGED loc
       \* res.status(404)
       ELSE /\ Free(s)
            /\ UNCHANGED jobs
  /\ UNCHANGED <<env, db, services>>

\* ------------------------------------------------- utils/urlSigning.js
\* Text is a sequence of atoms: a rendered value or the separator ':'.
Sep == [t |-> "sep"]

\* what generateSignedUrl is given as invoiceId: a number, or (by the handler)
\* the path `/api/invoices/${invoiceId}/pdf`
Num(n) == [t |-> "num", n |-> n]
PdfPath(n) == [t |-> "path", n |-> n]

\* `${value}`
Template(value) == <<value>>

\* crypto.createHmac('sha256', key).update(text).digest('hex')
Secret == "SIGNED_URL_SECRET"
Hmac(key, text) == [t |-> "mac", key |-> key, text |-> text]

\* Buffer.from(text).toString('base64') and Buffer.from(token, 'base64').toString()
ToBase64(text) == [base64 |-> text]
FromBase64(token) == token.base64

\* expiryDays * 24 * 60 * 60 * 1000, on the clock's scale of hours
HoursPerDay == 24

\* settings.signed_url_expiry_days || 7
DefaultExpiryDays == 7

GenerateSignedUrl(invoiceId, expiryDays, at) ==
  LET expiry == at + expiryDays * HoursPerDay
      payload == Template(invoiceId) \o <<Sep>> \o Template(Num(expiry))
      signature == Hmac(Secret, payload)
  IN ToBase64(payload \o <<Sep>> \o Template(signature))

\* text.split(':')
RECURSIVE Split(_)
Split(text) ==
  IF \A n \in 1..Len(text) : text[n] # Sep
    THEN <<text>>
    ELSE LET cut == CHOOSE n \in 1..Len(text) :
                      text[n] = Sep /\ \A m \in 1..(n - 1) : text[m] # Sep
         IN <<SubSeq(text, 1, cut - 1)>> \o Split(SubSeq(text, cut + 1, Len(text)))

\* const [id, expiry, signature] = parts: a missing part is undefined
Part(parts, k) == IF k <= Len(parts) THEN parts[k] ELSE << >>

\* parseInt: the leading number of the text, NaN when there is none
NaN == [nan |-> TRUE, n |-> 0]
ParseInt(text) ==
  IF Len(text) >= 1 /\ text[1].t = "num"
    THEN [nan |-> FALSE, n |-> text[1].n]
    ELSE NaN

\* a !== b on numbers: NaN differs from everything, itself included
Differs(a, b) == a.nan \/ b.nan \/ a.n # b.n

\* variant: the expiry is not looked at
ExpiredNever(expiry, at) == FALSE

\* Date.now() > parseInt(expiry): false when the expiry is NaN
Expired(expiry, at) == ~expiry.nan /\ at > expiry.n

\* variant: the tag is computed over the resource id alone
ExpectedSignatureOfId(id, expiry) == Template(Hmac(Secret, id))

\* createHmac('sha256', SECRET).update(`${id}:${expiry}`).digest('hex')
ExpectedSignature(id, expiry) == Template(Hmac(Secret, id \o <<Sep>> \o expiry))

\* variant: the tag is not compared
SignatureAny(signature, expected) == FALSE

\* signature !== expectedSignature
SignatureDiffers(signature, expected) == signature # expected

VerifySignedUrl(token, invoiceId, at) ==
  LET parts == Split(FromBase64(token))
      id == Part(parts, 1)
      expiry == Part(parts, 2)
      signature == Part(parts, 3)
  IN IF Differs(ParseInt(id), ParseInt(Template(Num(invoiceId))))
       THEN FALSE
       ELSE IF Expired(ParseInt(expiry), at)
         THEN FALSE
         ELSE IF SignatureDiffers(signature, ExpectedSignature(id, expiry))
           THEN FALSE
           ELSE TRUE

\* ------------------------------------------------- the 'send-invoice' handler
\* variant: the row is written with its terminal status at once
LogRowSent(s, type, provider) ==
  [invoice_id |-> req[s].invoiceId, send_type |-> type, status |-> "sent",
   provider |-> provider, trigger_type |-> jobs[req[s].job].triggerType,
   job |-> req[s].job, created_at |-> now, error_message |-> "NULL",
   error_code |-> "NULL"]

LogRow(s, type, provider) ==
  [invoice_id |-> req[s].invoiceId, send_type |-> type, status |-> "sending",
   provider |-> provider, trigger_type |-> jobs[req[s].job].triggerType,
   job |-> req[s].job, created_at |-> now, error_message |-> "NULL",
   error_code |-> "NULL"]

\* a call of the handler to a channel dispatcher, kept with the job that made it
Call(s, channel, op, provider, transmitted, threw) ==
  [jobs EXCEPT ![req[s].job].calls =
     Append(@, [channel |-> channel, op |-> op, provider |-> provider,
                attachment |-> loc[s].pdfBuffer, link |-> loc[s].invoiceUrl,
                transmitted |-> transmitted, threw |-> threw])]

\* error.error of the value a dispatcher throws: sendInvoiceEmail and
\* sendInvoiceSMS throw {error: error.message, ...}; init and db.run throw an
\* Error, which has no .error property
ErrorMessage(error) ==
  IF error \in {"provider", "attachments", "validation"} THEN error ELSE "NULL"

\* error.errorCode: error.code of the error the provider's client raised
ErrorCode(error) ==
  IF error = "provider" THEN "code" ELSE "NULL"

\* variant: a missing preference record counts as unsubscribed
UnsubscribedOrUnknown(prefs) == ~prefs.found \/ prefs.email_unsubscribed

\* variant: the consent check is left out
UnsubscribedIgnored(prefs) == FALSE

\* if (prefs?.email_unsubscribed)
Unsubscribed(prefs) == prefs.found /\ prefs.email_unsubscribed

\* variant: the SMS guard leaves the opt-in out
OptedInAssumed(prefs) == TRUE

\* prefs?.sms_opt_in
OptedIn(prefs) == prefs.found /\ prefs.sms_opt_in

\* the lookups a job for invoice i is explored with: sms_opt_in is read by the
\* SMS stage alone, and only behind sms_enabled and a customerPhone
PrefsRead(i) ==
  {p \in PrefsResults :
     p.sms_opt_in => /\ invoice_settings.sms_enabled
                     /\ invoices[i].customerPhone # "none"}

\* settings, preferences, consent check, progress(10)
WorkerLoad(s) ==
  /\ pc[s] = "w_start"
  /\ \E prefs \in PrefsRead(req[s].invoiceId) :
       LET looked == [jobs EXCEPT ![req[s].job].prefs = prefs] IN
       IF Unsubscribed(prefs)
         THEN /\ jobs' = Ended(looked, s, "completed", "skipped", << >>,
                               invoices[req[s].invoiceId].send_status)
              /\ Free(s)
         ELSE IF ~invoice_settings.present
           \* settings.company_name throws inside the PDF try (caught), then
           \* settings.email_enabled throws outside it
           THEN /\ jobs' = Reported(looked, s, <<10, 40>>)
                /\ loc' = Upd(loc, s, [loc[s] EXCEPT !.error = "settings"])
                /\ pc' = Upd(pc, s, "w_catch")
                /\ UNCHANGED req
           ELSE /\ jobs' = Reported(looked, s, <<10>>)
                /\ loc' = Upd(loc, s, [loc[s] EXCEPT !.settings = invoice_settings])
                /\ pc' = Upd(pc, s, "w_pdf")
                /\ UNCHANGED req
  /\ UNCHANGED <<env, db, services>>

\* variant: a failure of the PDF stage goes to the outer catch
PdfAbort == "w_catch"

\* where the handler goes on after the PDF try, also through its catch
PdfDone == "w_email"

\* generateInvoicePDF, progress(25), savePDF.  addItemsTable does
\* JSON.parse(invoiceData.items): it throws on the array POST / passes
WorkerPdf(s) ==
  /\ pc[s] = "w_pdf"
  /\ \E generated \in (IF jobs[req[s].job].items = "string" THEN BOOLEAN ELSE {FALSE}),
        saved \in BOOLEAN :
       IF ~generated
         THEN /\ saved
              /\ pc' = Upd(pc, s, PdfDone)
              /\ UNCHANGED <<jobs, storage>>
         ELSE IF ~saved
           THEN /\ jobs' = Report(s, <<25>>)
                /\ pc' = Upd(pc, s, PdfDone)
                /\ UNCHANGED storage
           ELSE /\ jobs' = Report(s, <<25>>)
                /\ pc' = Upd(pc, s, "w_file")
                /\ storage' = [storage EXCEPT ![req[s].invoiceId] = req[s].job]
  /\ UNCHANGED <<env, invoices, send_logs, invoice_files, services, req, loc>>

\* variant: the bytes and the link are kept when the INSERT rejects
WorkerFileKeeping(s) ==
  /\ pc[s] = "w_file"
  /\ \E inserted \in BOOLEAN :
       /\ invoice_files' =
            IF inserted
              THEN Append(invoice_files,
                     [invoice_id |-> req[s].invoiceId, file_hash |-> req[s].job,
                      signed_url |-> GenerateSignedUrl(PdfPath(req[s].invoiceId),
                                                       DefaultExpiryDays, now),
                      generated_at |-> now, job |-> req[s].job])
              ELSE invoice_files
       /\ loc' = Upd(loc, s, [loc[s] EXCEPT !.pdfBuffer = TRUE,
                                            !.invoiceUrl = TRUE])
  /\ pc' = Upd(pc, s, PdfDone)
  /\ UNCHANGED <<env, invoices, send_logs, storage, services, jobs, req>>

\* generateSignedUrl, INSERT INTO invoice_files; when the INSERT rejects, the
\* catch of the PDF try sets pdfBuffer and invoiceUrl back to null
WorkerFile(s) ==
  /\ pc[s] = "w_file"
  /\ \E inserted \in BOOLEAN :
       IF inserted
         THEN /\ invoice_files' = Append(invoice_files,
                   [invoice_id |-> req[s].invoiceId, file_hash |-> req[s].job,
                    signed_url |-> GenerateSignedUrl(PdfPath(req[s].invoiceId),
                                                     DefaultExpiryDays, now),
                    generated_at |-> now, job |-> req[s].job])
              /\ loc' = Upd(loc, s, [loc[s] EXCEPT !.pdfBuffer = TRUE,
                                                   !.invoiceUrl = TRUE])
         ELSE UNCHANGED <<invoice_files, loc>>
  /\ pc' = Upd(pc, s, PdfDone)
  /\ UNCHANGED <<env, invoices, send_logs, storage, services, jobs, req>>

\* progress(40); Step 2: INSERT the email row with status 'sending'
WorkerEmail(s) ==
  /\ pc[s] = "w_email"
  /\ jobs' = Report(s, <<40>>)
  /\ IF loc[s].settings.email_enabled
       THEN /\ send_logs' = Append(send_logs, LogRow(s, "email", loc[s].settings.email_provider))
            /\ loc' = Upd(loc, s, [loc[s] EXCEPT !.emailLog = Len(send_logs) + 1])
            /\ pc' = Upd(pc, s, "w_einit")
       ELSE /\ pc' = Upd(pc, s, "w_sms")
            /\ UNCHANGED <<send_logs, loc>>
  /\ UNCHANGED <<env, invoices, invoice_files, storage, services, req>>

\* emailService.init(settings): binds the singleton to the selected provider
\* when config holds its credentials, throws otherwise
WorkerEmailInit(s) ==
  /\ pc[s] = "w_einit"
  /\ \E configured \in BOOLEAN :
       /\ jobs' = Call(s, "email", "init", loc[s].settings.email_provider, FALSE, ~configured)
       /\ IF configured
         THEN /\ emailProviderName' = loc[s].settings.email_provider
              /\ pc' = Upd(pc, s, "w_esend")
              /\ UNCHANGED loc
         ELSE /\ loc' = Upd(loc, s, [loc[s] EXCEPT !.error = "init"])
              /\ pc' = Upd(pc, s, "w_efail")
              /\ UNCHANGED emailProviderName
  /\ UNCHANGED <<env, db, smsProviderName, req>>

\* emailService.sendInvoiceEmail: sendViaMailgun and sendViaSES map over
\* emailData.attachments, which is undefined when pdfBuffer is null
WorkerEmailSend(s) ==
  /\ pc[s] = "w_esend"
  /\ IF ~loc[s].pdfBuffer /\ emailProviderName \in {"mailgun", "ses"}
       THEN /\ jobs' = Call(s, "email", "send", emailProviderName, FALSE, TRUE)
            /\ loc' = Upd(loc, s, [loc[s] EXCEPT !.error = "attachments"])
            /\ pc' = Upd(pc, s, "w_efail")
       ELSE \E accepted \in BOOLEAN :
              /\ jobs' = Call(s, "email", "send", emailProviderName, TRUE, ~accepted)
              /\ IF accepted
                   THEN /\ pc' = Upd(pc, s, "w_eupd")
                        /\ UNCHANGED loc
                   ELSE /\ loc' = Upd(loc, s, [loc[s] EXCEPT !.error = "provider"])
                        /\ pc' = Upd(pc, s, "w_efail")
  /\ UNCHANGED <<env, db, emailProviderName, smsProviderName, req>>

\* variant: the handler goes on without the UPDATE of the row
WorkerEmailSentSkipped(s) ==
  /\ pc[s] = "w_eupd"
  /\ pc' = Upd(pc, s, "w_eflag")
  /\ UNCHANGED <<env, db, services, jobs, req, loc>>

\* UPDATE send_logs SET status = 'sent' WHERE id = emailLog.lastID
WorkerEmailSent(s) ==
  /\ pc[s] = "w_eupd"
  /\ send_logs' = [send_logs EXCEPT ![loc[s].emailLog].status = "sent"]
  /\ pc' = Upd(pc, s, "w_eflag")
  /\ UNCHANGED <<env, invoices, invoice_files, storage, services, jobs, req, loc>>

\* UPDATE invoices SET email_sent = 1: rejected when the column is missing
WorkerEmailFlag(s) ==
  /\ pc[s] = "w_eflag"
  /\ IF flagColumns
       THEN /\ invoices' = [invoices EXCEPT ![req[s].invoiceId].email_sent = TRUE]
            /\ pc' = Upd(pc, s, "w_sms")
            /\ UNCHANGED loc
       ELSE /\ loc' = Upd(loc, s, [loc[s] EXCEPT !.error = "db"])
            /\ pc' = Upd(pc, s, "w_efail")
            /\ UNCHANGED invoices
  /\ UNCHANGED <<env, send_logs, invoice_files, storage, services, jobs, req>>

\* variant: the catch of the email try does not rethrow
WorkerEmailFailedSwallowed(s) ==
  /\ pc[s] = "w_efail"
  /\ send_logs' = [send_logs EXCEPT ![loc[s].emailLog].status = "failed"]
  /\ loc' = Upd(loc, s, [loc[s] EXCEPT !.error = "none"])
  /\ pc' = Upd(pc, s, "w_sms")
  /\ UNCHANGED <<env, invoices, invoice_files, storage, services, jobs, req>>

\* variant: the catch of the email try reports the stage as done
WorkerEmailFailedReporting(s) ==
  /\ pc[s] = "w_efail"
  /\ send_logs' = [send_logs EXCEPT ![loc[s].emailLog].status = "failed"]
  /\ jobs' = Report(s, <<70>>)
  /\ pc' = Upd(pc, s, "w_catch")
  /\ UNCHANGED <<env, invoices, invoice_files, storage, services, req, loc>>

\* the catch of the email try: UPDATE send_logs SET status = 'failed'; throw
WorkerEmailFailed(s) ==
  /\ pc[s] = "w_efail"
  /\ send_logs' = [send_logs EXCEPT ![loc[s].emailLog].status = "failed",
                                    ![loc[s].emailLog].error_message = ErrorMessage(loc[s].error),
                                    ![loc[s].emailLog].error_code = ErrorCode(loc[s].error)]
  /\ pc' = Upd(pc, s, "w_catch")
  /\ UNCHANGED <<env, invoices, invoice_files, storage, services, jobs, req, loc>>

\* progress(70); Step 3: INSERT the SMS row with status 'sending'
WorkerSms(s) ==
  /\ pc[s] = "w_sms"
  /\ jobs' = Report(s, <<70>>)
  /\ IF /\ loc[s].settings.sms_enabled
        /\ invoices[req[s].invoiceId].customerPhone # "none"
        /\ OptedIn(jobs[req[s].job].prefs)
       THEN /\ send_logs' = Append(send_logs, LogRow(s, "sms", loc[s].settings.sms_provider))
            /\ loc' = Upd(loc, s, [loc[s] EXCEPT !.smsLog = Len(send_logs) + 1])
            /\ pc' = Upd(pc, s, "w_sinit")
       ELSE /\ pc' = Upd(pc, s, "w_final")
            /\ UNCHANGED <<send_logs, loc>>
  /\ UNCHANGED <<env, invoices, invoice_files, storage, services, req>>

\* smsService.init(settings)
WorkerSmsInit(s) ==
  /\ pc[s] = "w_sinit"
  /\ \E configured \in BOOLEAN :
       /\ jobs' = Call(s, "sms", "init", loc[s].settings.sms_provider, FALSE, ~configured)
       /\ IF configured
         THEN /\ smsProviderName' = loc[s].settings.sms_provider
              /\ pc' = Upd(pc, s, "w_ssend")
              /\ UNCHANGED loc
         ELSE /\ loc' = Upd(loc, s, [loc[s] EXCEPT !.error = "init"])
              /\ pc' = Upd(pc, s, "w_sfail")
              /\ UNCHANGED smsProviderName
  /\ UNCHANGED <<env, db, emailProviderName, req>>

\* variant: every number is handed to the provider
PhoneAccepted(phone) == FALSE

\* validatePhoneNumber throws: parsePhoneNumber throws or isValid() is false
PhoneRejected(phone) == phone = "invalid"

\* smsService.sendInvoiceSMS: validatePhoneNumber, renderMessage, the provider
WorkerSmsSend(s) ==
  /\ pc[s] = "w_ssend"
  /\ IF PhoneRejected(invoices[req[s].invoiceId].customerPhone)
       THEN /\ jobs' = Call(s, "sms", "send", smsProviderName, FALSE, TRUE)
            /\ loc' = Upd(loc, s, [loc[s] EXCEPT !.error = "validation"])
            /\ pc' = Upd(pc, s, "w_sfail")
       ELSE \E accepted \in BOOLEAN :
              /\ jobs' = Call(s, "sms", "send", smsProviderName, TRUE, ~accepted)
              /\ IF accepted
                   THEN /\ pc' = Upd(pc, s, "w_supd")
                        /\ UNCHANGED loc
                   ELSE /\ loc' = Upd(loc, s, [loc[s] EXCEPT !.error = "provider"])
                        /\ pc' = Upd(pc, s, "w_sfail")
  /\ UNCHANGED <<env, db, emailProviderName, smsProviderName, req>>

\* variant: the handler sets the flag without the UPDATE of the row
WorkerSmsSentSkipped(s) ==
  /\ pc[s] = "w_supd"
  /\ pc' = Upd(pc, s, "w_sflag")
  /\ UNCHANGED <<env, db, services, jobs, req, loc>>

\* UPDATE send_logs SET status = 'sent' WHERE id = smsLog.lastID
WorkerSmsSent(s) ==
  /\ pc[s] = "w_supd"
  /\ send_logs' = [send_logs EXCEPT ![loc[s].smsLog].status = "sent"]
  /\ pc' = Upd(pc, s, "w_sflag")
  /\ UNCHANGED <<env, invoices, invoice_files, storage, services, jobs, req, loc>>

\* UPDATE invoices SET sms_sent = 1: rejected when the column is missing
WorkerSmsFlag(s) ==
  /\ pc[s] = "w_sflag"
  /\ IF flagColumns
       THEN /\ invoices' = [invoices EXCEPT ![req[s].invoiceId].sms_sent = TRUE]
            /\ pc' = Upd(pc, s, "w_final")
            /\ UNCHANGED loc
       ELSE /\ loc' = Upd(loc, s, [loc[s] EXCEPT !.error = "db"])
            /\ pc' = Upd(pc, s, "w_sfail")
            /\ UNCHANGED invoices
  /\ UNCHANGED <<env, send_logs, invoice_files, storage, services, jobs, req>>

\* variant: the catch of the SMS try rethrows
WorkerSmsFailedThrown(s) ==
  /\ pc[s] = "w_sfail"
  /\ send_logs' = [send_logs EXCEPT ![loc[s].smsLog].status = "failed"]
  /\ pc' = Upd(pc, s, "w_catch")
  /\ UNCHANGED <<env, invoices, invoice_files, storage, services, jobs, req, loc>>

\* variant: the catch of the SMS try leaves the row as it is
WorkerSmsFailedUnrecorded(s) ==
  /\ pc[s] = "w_sfail"
  /\ loc' = Upd(loc, s, [loc[s] EXCEPT !.error = "none"])
  /\ pc' = Upd(pc, s, "w_final")
  /\ UNCHANGED <<env, db, services, jobs, req>>

\* the catch of the SMS try: UPDATE send_logs SET status = 'failed'; no throw
WorkerSmsFailed(s) ==
  /\ pc[s] = "w_sfail"
  /\ send_logs' = [send_logs EXCEPT ![loc[s].smsLog].status = "failed",
                                    ![loc[s].smsLog].error_message = ErrorMessage(loc[s].error)]
  /\ loc' = Upd(loc, s, [loc[s] EXCEPT !.error = "none"])
  /\ pc' = Upd(pc, s, "w_final")
  /\ UNCHANGED <<env, invoices, invoice_files, storage, services, jobs, req>>

\* progress(100); UPDATE invoices SET send_status = 'sent'; return success
WorkerFinal(s) ==
  /\ pc[s] = "w_final"
  /\ invoices' = [invoices EXCEPT ![req[s].invoiceId].send_status = "sent"]
  /\ Finish(s, "completed", "success", <<100>>)
  /\ UNCHANGED <<env, send_logs, invoice_files, storage, services>>

\* variant: the outer catch rethrows without writing send_status
WorkerCatchSilent(s) ==
  /\ pc[s] = "w_catch"
  /\ invoices' = invoices
  /\ Finish(s, "failed", "none", << >>)
  /\ UNCHANGED <<env, send_logs, invoice_files, storage, services>>

\* variant: the UPDATE of the outer catch without its WHERE clause
WorkerCatchEvery(s) ==
  /\ pc[s] = "w_catch"
  /\ invoices' = [i \in DOMAIN invoices |->
                    [invoices[i] EXCEPT !.send_status = "failed"]]
  /\ Finish(s, "failed", "none", << >>)
  /\ UNCHANGED <<env, send_logs, invoice_files, storage, services>>

\* the outer catch: UPDATE invoices SET send_status = 'failed'; throw
WorkerCatch(s) ==
  /\ pc[s] = "w_catch"
  /\ invoices' = [invoices EXCEPT ![req[s].invoiceId].send_status = "failed"]
  /\ Finish(s, "failed", "none", << >>)
  /\ UNCHANGED <<env, send_logs, invoice_files, storage, services>>

\* ------------------------------------------------------------ the system
Route(s) ==
  \/ CreateInvoice(s)
  \/ CreateQueue(s)
  \/ \E i \in 1..MaxInvoices : SendCheck(s, i)
  \/ SendRecent(s)
  \/ SendFetch(s)

Worker(s) ==
  \/ WorkerLoad(s)
  \/ WorkerPdf(s)
  \/ WorkerFile(s)
  \/ WorkerEmail(s)
  \/ WorkerEmailInit(s)
  \/ WorkerEmailSend(s)
  \/ WorkerEmailSent(s)
  \/ WorkerEmailFlag(s)
  \/ WorkerEmailFailed(s)
  \/ WorkerSms(s)
  \/ WorkerSmsInit(s)
  \/ WorkerSmsSend(s)
  \/ WorkerSmsSent(s)
  \/ WorkerSmsFlag(s)
  \/ WorkerSmsFailed(s)
  \/ WorkerFinal(s)
  \/ WorkerCatch(s)

Next ==
  \/ Tick
  \/ \E s \in Slots : Route(s)
  \/ \E s \in Slots : Worker(s)

Spec == Init /\ [][Next]_vars

\* --------------------------------------- signed links and their retrieval
\* The link endpoints, run against a database a delivery job may have left:
\* invoice 1 exists or not, with or without the file row of one job.
Ids == 1..MaxIds

FileRows ==
  {[invoice_id |-> 1, file_hash |-> 1,
    signed_url |-> GenerateSignedUrl(PdfPath(1), DefaultExpiryDays, 0),
    generated_at |-> 0, job |-> 1]}

CodecInit ==
  /\ now = 0
  /\ invoice_settings = NoSettings
  /\ flagColumns = TRUE
  /\ invoices \in {<< >>, <<[send_status |-> "failed", email_sent |-> FALSE,
                               sms_sent |-> FALSE, customerPhone |-> "none"]>>}
  /\ invoice_files \in {<< >>} \cup {<<row>> : row \in {r \in FileRows : invoices # << >>}}
  /\ send_logs = << >>
  /\ storage = [i \in 1..MaxInvoices |-> IF invoice_files = << >> THEN 0 ELSE 1]
  /\ emailProviderName = "null"
  /\ smsProviderName = "null"
  /\ jobs = << >>
  /\ pc = [s \in Slots |-> "idle"]
  /\ req = [s \in Slots |-> NoRequest]
  /\ loc = [s \in Slots |-> NoLocals]
  /\ minted = {}
  /\ response = NoResponse
  /\ processor = SendInvoice
  /\ added = << >>
  /\ concurrency = DefaultConcurrency
  /\ closed = NotClosed

pipeline == <<invoice_settings, flagColumns, db, services, jobs, pc, req, loc,
              processor, added, concurrency, closed>>

\* Date.now() moves on
Advance ==
  /\ now + ClockStep <= MaxClock
  /\ now' = now + ClockStep
  /\ UNCHANGED <<pipeline, minted, response>>

\* a caller asks generateSignedUrl(invoiceId, expiryDays) for a token
Generate(invoiceId, expiryDays) ==
  /\ Cardinality(minted) < MaxMinted
  /\ minted' = minted \cup
       {[token |-> GenerateSignedUrl(Num(invoiceId), expiryDays, now),
         invoiceId |-> invoiceId, expiryDays |-> expiryDays, at |-> now]}
  /\ UNCHANGED <<now, pipeline, response>>

\* the text of a token's fields, joined with ':' and encoded
Encode(id, expiry, signature) ==
  ToBase64(id \o <<Sep>> \o expiry \o <<Sep>> \o signature)

\* what a holder of a token can make of it without the secret: another id,
\* a later expiry, a tag of their own, a missing tag, in every combination
Forgeries(token) ==
  LET parts == Split(FromBase64(token))
      id == Part(parts, 1)
      expiry == Part(parts, 2)
      signature == Part(parts, 3)
      later == Template(Num(ParseInt(expiry).n + ClockStep))
  IN {Encode(i, e, s) :
        i \in {id} \cup {Template(Num(n)) : n \in Ids},
        e \in {expiry, later},
        s \in {signature, << >>}} \cup
     {Encode(i, e, Template(Hmac("guess", i \o <<Sep>> \o e))) :
        i \in {id} \cup {Template(Num(n)) : n \in Ids},
        e \in {expiry, later}}

\* the tokens in circulation: the ones handed out and the stored signed_url
Issued ==
  {m.token : m \in minted} \cup
    {invoice_files[f].signed_url : f \in 1..Len(invoice_files)}

\* values of req.query.token
Presented == {NoToken} \cup Issued \cup UNION {Forgeries(token) : token \in Issued}

\* variant: only the presence of a token is checked
TokenMissing(token, invoiceId, at) == token = NoToken

\* !token || !verifySignedUrl(token, invoiceId)
TokenRefused(token, invoiceId, at) ==
  token = NoToken \/ ~VerifySignedUrl(token, invoiceId, at)

Answer(route, invoiceId, token, status, body) ==
  /\ response' = [route |-> route, invoiceId |-> invoiceId, token |-> token,
                  at |-> now, status |-> status, body |-> body]
  /\ UNCHANGED <<now, pipeline, minted>>

\* GET /api/invoices/:id/pdf?token=...; :id has passed param('id').isInt()
GetPdf(invoiceId, token) ==
  IF TokenRefused(token, invoiceId, now)
    THEN Answer("pdf", invoiceId, token, 403, "invalid_or_expired")
    ELSE IF \A f \in 1..Len(invoice_files) : invoice_files[f].invoice_id # invoiceId
      THEN Answer("pdf", invoiceId, token, 404, "not_found")
      ELSE Answer("pdf", invoiceId, token, 200, "pdf")

\* GET /api/invoices/:id/view?token=...; :id has passed param('id').isInt()
GetView(invoiceId, token) ==
  IF TokenRefused(token, invoiceId, now)
    THEN Answer("view", invoiceId, token, 403, "invalid_or_expired")
    ELSE IF invoiceId \notin 1..Len(invoices)
      THEN Answer("view", invoiceId, token, 404, "not_found")
      ELSE Answer("view", invoiceId, token, 200, "html")

CodecNext ==
  \/ Advance
  \/ \E invoiceId \in Ids, expiryDays \in 1..MaxDays : Generate(invoiceId, expiryDays)
  \/ \E invoiceId \in Ids, token \in Presented : GetPdf(invoiceId, token)
  \/ \E invoiceId \in Ids, token \in Presented : GetView(invoiceId, token)

CodecSpec == CodecInit /\ [][CodecNext]_vars

\* ------------------------------------------------- MockQueue, on its own
\* The queue object with a handler that returns a value or throws, before
\* and after a handler is registered.
Results == {"success", "skipped"}   \* what the handler returns
Errors == {"send failed"}           \* what the handler throws

QueueInit ==
  /\ now = 0
  /\ invoice_settings = NoSettings
  /\ flagColumns = TRUE
  /\ invoices = << >>
  /\ send_logs = << >>
  /\ invoice_files = << >>
  /\ storage = [i \in 1..MaxInvoices |-> 0]
  /\ emailProviderName = "null"
  /\ smsProviderName = "null"
  /\ jobs = << >>
  /\ pc = [s \in Slots |-> "idle"]
  /\ req = [s \in Slots |-> NoRequest]
  /\ loc = [s \in Slots |-> NoLocals]
  /\ minted = {}
  /\ response = NoResponse
  /\ processor = NoProcessor
  /\ added = << >>
  /\ concurrency = 0
  /\ closed = NotClosed

rest == <<invoice_settings, flagColumns, db, services, jobs, pc, req, loc,
          minted, response>>

\* variant: registering a handler runs the jobs accepted before it
ProcessDrains(limit) ==
  /\ processor' = SendInvoice
  /\ concurrency' = limit
  /\ added' = [c \in 1..Len(added) |->
                 IF added[c].invoked = 0
                   THEN [added[c] EXCEPT !.invoked = 1, !.handler = "running",
                                         !.outcome = "pending"]
                   ELSE added[c]]
  /\ UNCHANGED <<now, rest, closed>>

\* process(jobName, concurrency, processorFn): this.processor = processorFn
\* the concurrency is not kept by the queue
Process(limit) ==
  /\ processor' = SendInvoice
  /\ concurrency' = limit
  /\ UNCHANGED <<now, rest, added, closed>>

\* add(jobName, data): with a processor the handler is called and awaited,
\* without one the call returns { id, data } at once
Add(data) ==
  /\ Len(added) < MaxAdds
  /\ added' = Append(added,
       IF processor # NoProcessor
         THEN [id |-> now, data |-> data, registered |-> TRUE,
               afterClose |-> closed.called, invoked |-> 1,
               handler |-> "running", returned |-> "none", thrown |-> "none",
               outcome |-> "pending", result |-> "none", error |-> "none"]
         ELSE [id |-> now, data |-> data, registered |-> FALSE,
               afterClose |-> closed.called, invoked |-> 0,
               handler |-> "never", returned |-> "none", thrown |-> "none",
               outcome |-> "resolved", result |-> "none", error |-> "none"])
  /\ UNCHANGED <<now, rest, processor, concurrency, closed>>

\* variant: add resolves with { id, data } and leaves the result out
ResolvedBare(call, value) ==
  [call EXCEPT !.handler = "returned", !.returned = value,
               !.outcome = "resolved"]

\* const result = await this.processor(job); return { id: job.id, data, result }
Resolved(call, value) ==
  [call EXCEPT !.handler = "returned", !.returned = value,
               !.outcome = "resolved", !.result = value]

\* variant: the catch logs the error and add resolves
RejectedSilently(call, error) ==
  [call EXCEPT !.handler = "threw", !.thrown = error, !.outcome = "resolved"]

\* catch (error) { console.error(...); throw error; }
Rejected(call, error) ==
  [call EXCEPT !.handler = "threw", !.thrown = error,
               !.outcome = "rejected", !.error = error]

\* the awaited handler returns
HandlerReturns(c, value) ==
  /\ added[c].handler = "running"
  /\ added' = [added EXCEPT ![c] = Resolved(added[c], value)]
  /\ UNCHANGED <<now, rest, processor, concurrency, closed>>

\* the awaited handler throws
HandlerThrows(c, error) ==
  /\ added[c].handler = "running"
  /\ added' = [added EXCEPT ![c] = Rejected(added[c], error)]
  /\ UNCHANGED <<now, rest, processor, concurrency, closed>>

\* the handler invocations add is awaiting
Running == {c \in 1..Len(added) : added[c].handler = "running"}

\* close(): logs and resolves
Close ==
  /\ closed' = [called |-> TRUE, inflight |-> Cardinality(Running)]
  /\ UNCHANGED <<now, rest, processor, added, concurrency>>

QueueNext ==
  \/ Tick
  \/ \E limit \in 1..MaxConcurrency : Process(limit)
  \/ Close
  \/ \E data \in 1..MaxInvoices : Add(data)
  \/ \E c \in 1..Len(added), value \in Results : HandlerReturns(c, value)
  \/ \E c \in 1..Len(added), error \in Errors : HandlerThrows(c, error)

QueueSpec == QueueInit /\ [][QueueNext]_vars

\* --------------------------------------- jobs of several invoices at once
\* The pipeline over a database that already holds one invoice more than the
\* create route may add, under a settings row an operator rewrites while
\* jobs are in flight.
ConcurrentInit ==
  /\ now = 0
  /\ invoice_settings \in {r \in OverlapSettings : ~r.auto_send_on_create}
  /\ flagColumns = TRUE
  /\ invoices = [i \in 1..(MaxInvoices + 1) |->
                   [send_status |-> "pending", email_sent |-> FALSE,
                    sms_sent |-> FALSE, customerPhone |-> "none"]]
  /\ send_logs = << >>
  /\ invoice_files = << >>
  /\ storage = [i \in 1..(MaxInvoices + 1) |-> 0]
  /\ emailProviderName = "null"
  /\ smsProviderName = "null"
  /\ jobs = << >>
  /\ pc = [s \in Slots |-> "idle"]
  /\ req = [s \in Slots |-> NoRequest]
  /\ loc = [s \in Slots |-> NoLocals]
  /\ minted = {}
  /\ response = NoResponse
  /\ processor = SendInvoice
  /\ added = << >>
  /\ concurrency = DefaultConcurrency
  /\ closed = NotClosed

\* invoice_settings.email_provider is rewritten, once; every job reads the
\* row anew
Reconfigure ==
  /\ invoice_settings \in OverlapSettings
  /\ \E p \in EmailProviders \ {invoice_settings.email_provider} :
       invoice_settings' = [invoice_settings EXCEPT !.email_provider = p]
  /\ UNCHANGED <<now, flagColumns, db, services, jobs, pc, req, loc, minted,
                 response, processor, added, concurrency, closed>>

\* the handler with SMS switched off: Step 3 is passed over
ConcurrentNext ==
  \/ Reconfigure
  \/ \E s \in Slots : \E i \in 1..Len(invoices) : SendCheck(s, i)
  \/ \E s \in Slots : SendRecent(s)
  \/ \E s \in Slots : SendFetch(s)
  \/ \E s \in Slots : \/ WorkerLoad(s)
                       \/ WorkerPdf(s)
                       \/ WorkerFile(s)
                       \/ WorkerEmail(s)
                       \/ WorkerEmailInit(s)
                       \/ WorkerEmailSend(s)
                       \/ WorkerEmailSent(s)
                       \/ WorkerEmailFlag(s)
                       \/ WorkerEmailFailed(s)
                       \/ WorkerSms(s)
                       \/ WorkerFinal(s)
                       \/ WorkerCatch(s)

ConcurrentSpec == ConcurrentInit /\ [][ConcurrentNext]_vars

\* ------------------------------------------------------------ vocabulary
JobIds == 1..Len(jobs)
RowIds == 1..Len(send_logs)
Channels == {"email", "sms"}

HasEnded(j) == jobs[j].state # "running"

\* the send_logs rows job j inserted for a channel
RowsOf(j, channel) ==
  {r \in RowIds : send_logs[r].job = j /\ send_logs[r].send_type = channel}

FilesOf(j) == {f \in 1..Len(invoice_files) : invoice_files[f].job = j}

\* the calls job j made to a channel's dispatcher, as positions in its call log
CallsOf(j, channel) ==
  {n \in 1..Len(jobs[j].calls) : jobs[j].calls[n].channel = channel}

\* init or the send of the channel threw in job j
Threw(j, channel) == \E n \in CallsOf(j, channel) : jobs[j].calls[n].threw

InProgress(j, percent) ==
  \E n \in 1..Len(jobs[j].progress) : jobs[j].progress[n] = percent

\* job j is before or inside its PDF stage
AtPdf(j) ==
  \E s \in Slots : req[s].job = j /\ pc[s] \in {"w_start", "w_pdf", "w_file"}

\* the PDF stage of job j is over and has left no file record
PdfFailed(j) == InProgress(j, 10) /\ ~AtPdf(j) /\ FilesOf(j) = {}

\* ------------------------------------------------------------------- C1
\* C1: in a job whose emailService.init or emailService.sendInvoiceEmail threw,
\* the email row the job created ends 'failed', the job fails, the invoice's
\* send_status is 'failed' as the handler throws, and the SMS stage is never
\* entered.
C1_EmailFailureFatal ==
  \A j \in JobIds :
    HasEnded(j) /\ Threw(j, "email") =>
      /\ jobs[j].state = "failed"
      /\ jobs[j].send_status = "failed"
      /\ RowsOf(j, "email") # {}
      /\ \A r \in RowsOf(j, "email") : send_logs[r].status = "failed"
      /\ RowsOf(j, "sms") = {} /\ CallsOf(j, "sms") = {}

\* init threw in one finished job and sendInvoiceEmail in another
C1_Witness ==
  \E j, k \in JobIds :
    /\ HasEnded(j) /\ HasEnded(k)
    /\ \E n \in CallsOf(j, "email") :
         jobs[j].calls[n].op = "init" /\ jobs[j].calls[n].threw
    /\ \E n \in CallsOf(k, "email") :
         jobs[k].calls[n].op = "send" /\ jobs[k].calls[n].threw

\* ------------------------------------------------------------------- C2
\* C2: in a job whose smsService.init or smsService.sendInvoiceSMS threw, the
\* SMS row ends 'failed', the handler still returns success and the invoice's
\* send_status is 'sent' as it returns; the job's email row stays 'sent'.
C2_SmsFailureNotFatal ==
  \A j \in JobIds :
    HasEnded(j) /\ Threw(j, "sms") =>
      /\ jobs[j].state = "completed"
      /\ jobs[j].result = "success"
      /\ jobs[j].send_status = "sent"
      /\ RowsOf(j, "sms") # {}
      /\ \A r \in RowsOf(j, "sms") : send_logs[r].status = "failed"
      /\ \A r \in RowsOf(j, "email") : send_logs[r].status = "sent"

\* smsService.init threw in one finished job and sendInvoiceSMS in another,
\* the latter after its email went out
C2_Witness ==
  \E j, k \in JobIds :
    /\ HasEnded(j) /\ HasEnded(k)
    /\ \E n \in CallsOf(j, "sms") :
         jobs[j].calls[n].op = "init" /\ jobs[j].calls[n].threw
    /\ \E n \in CallsOf(k, "sms") :
         jobs[k].calls[n].op = "send" /\ jobs[k].calls[n].threw
    /\ RowsOf(k, "email") # {}

\* ------------------------------------------------------------------- C3
\* C3: a job whose PDF stage failed (rendering, storage or the file record) is
\* not aborted: with email enabled it goes on to progress 40, inserts its
\* email row and calls the dispatcher, every dispatcher call it makes carries no attachment and no
\* link, while it runs it always has a next step, and it ends with the
\* invoice's send_status 'sent' or 'failed', 'failed' exactly when its email
\* row is 'failed'.
C3_DegradedMode ==
  /\ \A j \in JobIds :
       PdfFailed(j) /\ invoice_settings.present =>
         /\ \A n \in 1..Len(jobs[j].calls) :
              ~jobs[j].calls[n].attachment /\ ~jobs[j].calls[n].link
         /\ invoice_settings.email_enabled /\ InProgress(j, 40)
              => RowsOf(j, "email") # {}
         /\ HasEnded(j) =>
              /\ InProgress(j, 40)
              /\ jobs[j].send_status \in {"sent", "failed"}
              /\ invoice_settings.email_enabled => CallsOf(j, "email") # {}
              /\ jobs[j].state = "failed" <=>
                   \E r \in RowsOf(j, "email") : send_logs[r].status = "failed"
              /\ jobs[j].state = "failed" <=> jobs[j].send_status = "failed"
  /\ \A s \in Slots :
       pc[s] \notin {"idle", "c_settings", "s_recent", "s_fetch"} => ENABLED Worker(s)

\* rendering threw in a job that then sent its email without attachment, and
\* the file record was rejected in another job whose email then failed
C3_Witness ==
  \E j, k \in JobIds :
    /\ PdfFailed(j) /\ ~InProgress(j, 25) /\ jobs[j].state = "completed"
    /\ \E n \in CallsOf(j, "email") :
         jobs[j].calls[n].transmitted /\ ~jobs[j].calls[n].threw
    /\ PdfFailed(k) /\ InProgress(k, 25) /\ storage[jobs[k].invoiceId] = k
    /\ jobs[k].state = "failed"

\* ------------------------------------------------------------------- C4
\* the last call job j made to a channel's dispatcher
LastCall(j, channel) ==
  jobs[j].calls[CHOOSE n \in CallsOf(j, channel) :
                  \A m \in CallsOf(j, channel) : m <= n]

\* C4: on either channel a row is inserted with status 'sending' before its
\* job has called the channel's dispatcher; whenever a job calls init or the
\* send of a dispatcher its row for that channel is there and is 'sending'
\* before and after the call; and a row leaves 'sending' for 'sent' only after
\* the send has returned, for 'failed' only after init or the send has thrown.
C4_LedgerOrder ==
  [][/\ \A r \in 1..Len(send_logs') :
          r > Len(send_logs) =>
            /\ send_logs'[r].status = "sending"
            /\ CallsOf(send_logs'[r].job, send_logs'[r].send_type) = {}
     /\ \A j \in JobIds :
          Len(jobs'[j].calls) > Len(jobs[j].calls) =>
            LET call == jobs'[j].calls[Len(jobs'[j].calls)] IN
            \E r \in RowsOf(j, call.channel) :
              send_logs[r].status = "sending" /\ send_logs'[r].status = "sending"
     /\ \A r \in RowIds :
          send_logs[r].status = "sending" /\ send_logs'[r].status # "sending" =>
            /\ CallsOf(send_logs[r].job, send_logs[r].send_type) # {}
            /\ LET last == LastCall(send_logs[r].job, send_logs[r].send_type) IN
               /\ send_logs'[r].status = "sent" => last.op = "send" /\ ~last.threw
               /\ send_logs'[r].status = "failed" => last.threw
    ]_vars

\* one job has taken its email row to 'sent' and its SMS row to 'failed'
C4_Witness ==
  \E r, q \in RowIds :
    /\ send_logs[r].job = send_logs[q].job
    /\ send_logs[r].send_type = "email" /\ send_logs[r].status = "sent"
    /\ send_logs[q].send_type = "sms" /\ send_logs[q].status = "failed"
    /\ Len(jobs[send_logs[r].job].calls) = 4

\* ------------------------------------------------------------------- C5
\* C5: the status of a send_logs row changes only from 'sending' to 'sent' or
\* from 'sending' to 'failed'; a row that is 'sent' or 'failed' keeps its
\* status.
C5_RowTransitions ==
  [][\A r \in RowIds :
       send_logs'[r].status # send_logs[r].status =>
         /\ send_logs[r].status = "sending"
         /\ send_logs'[r].status \in {"sent", "failed"}
    ]_vars

\* ------------------------------------------------------------------- C6
\* C6: at every moment at most one send_logs row of an invoice and a channel
\* has status 'sending'.
C6_OneInFlightRow ==
  \A r, q \in RowIds :
    /\ send_logs[r].invoice_id = send_logs[q].invoice_id
    /\ send_logs[r].send_type = send_logs[q].send_type
    /\ send_logs[r].status = "sending"
    /\ send_logs[q].status = "sending"
    => r = q

\* ------------------------------------------------------------------- C7
\* C7: the manual sends of one invoice never leave two email rows created
\* less than the lookback window apart of which the earlier is 'sent': the
\* later request finds the earlier row and enqueues nothing.
C7_ResendIdempotent ==
  \A r, q \in RowIds :
    /\ send_logs[r].invoice_id = send_logs[q].invoice_id
    /\ send_logs[r].send_type = "email" /\ send_logs[q].send_type = "email"
    /\ send_logs[r].trigger_type = "manual" /\ send_logs[q].trigger_type = "manual"
    /\ send_logs[r].status = "sent" /\ r <= q
    /\ send_logs[r].created_at <= send_logs[q].created_at
    /\ send_logs[q].created_at < send_logs[r].created_at + LookbackHours
    => r = q

\* ------------------------------------------------------------------- C8
\* C8: a job whose preference row has email_unsubscribed set ends in the step
\* that reads it, completed with the skipped outcome; that step changes no
\* invoice, no send_logs row, no invoice_files row and no stored file, and
\* the job has made no dispatcher call and reported no progress.
C8_UnsubscribedSkipped ==
  [][\A s \in Slots :
       pc[s] = "w_start" /\ pc'[s] # "w_start" =>
         LET job == jobs'[req[s].job] IN
         job.prefs.found /\ job.prefs.email_unsubscribed =>
           /\ job.state = "completed" /\ job.result = "skipped"
           /\ job.calls = << >> /\ job.progress = << >>
           /\ invoices' = invoices
           /\ send_logs' = send_logs /\ RowsOf(req[s].job, "email") = {}
           /\ RowsOf(req[s].job, "sms") = {}
           /\ invoice_files' = invoice_files /\ FilesOf(req[s].job) = {}
           /\ storage' = storage
    ]_vars

\* a job was skipped for an invoice an earlier job had delivered
C8_Witness ==
  \E j, k \in JobIds :
    /\ j < k /\ jobs[j].invoiceId = jobs[k].invoiceId
    /\ jobs[j].result = "success"
    /\ jobs[k].prefs.email_unsubscribed /\ jobs[k].result = "skipped"
    /\ jobs[k].send_status = "sent"

\* ------------------------------------------------------------------- C9
\* C9: while auto_send_on_create is off or the settings row is absent, POST /
\* hands no job to the queue (every job comes from a manual send), and an
\* invoice no job was made for has send_status 'pending' and no send_logs row.
C9_NoAutoSend ==
  ~(invoice_settings.present /\ invoice_settings.auto_send_on_create) =>
    /\ \A j \in JobIds : jobs[j].triggerType = "manual"
    /\ \A i \in 1..Len(invoices) :
         (\A j \in JobIds : jobs[j].invoiceId # i) =>
           /\ invoices[i].send_status = "pending"
           /\ \A r \in RowIds : send_logs[r].invoice_id # i

\* POST / has answered for an invoice created with auto-send off, and no job
\* exists
C9_Witness ==
  /\ invoice_settings.present /\ ~invoice_settings.auto_send_on_create
  /\ Len(invoices) >= 1 /\ jobs = << >>
  /\ \A s \in Slots : pc[s] = "idle"

\* ------------------------------------------------------------------ C10
\* the channel is enabled and job j is eligible for it
Eligible(j, channel) ==
  IF channel = "email"
    THEN invoice_settings.present /\ invoice_settings.email_enabled
    ELSE /\ invoice_settings.present /\ invoice_settings.sms_enabled
         /\ invoices[jobs[j].invoiceId].customerPhone # "none"
         /\ jobs[j].prefs.found /\ jobs[j].prefs.sms_opt_in

\* C10: a job that completed with success and in which no dispatcher call
\* threw has exactly one row per eligible channel, and that row is 'sent'; it
\* has no row for a channel that is not eligible; and the invoice's
\* email_sent / sms_sent flag is set when the job has a 'sent' row of that
\* channel, and only when the invoice has one.
C10_SuccessfulRun ==
  \A j \in JobIds :
    /\ jobs[j].state = "completed" /\ jobs[j].result = "success"
    /\ ~Threw(j, "email") /\ ~Threw(j, "sms")
    => \A channel \in Channels :
         /\ Eligible(j, channel) =>
              /\ Cardinality(RowsOf(j, channel)) = 1
              /\ \A r \in RowsOf(j, channel) : send_logs[r].status = "sent"
         /\ ~Eligible(j, channel) => RowsOf(j, channel) = {}
         /\ LET flag == IF channel = "email"
                          THEN invoices[jobs[j].invoiceId].email_sent
                          ELSE invoices[jobs[j].invoiceId].sms_sent
            IN /\ (\E r \in RowsOf(j, channel) : send_logs[r].status = "sent")
                    => flag
               /\ flag => \E r \in RowIds :
                            /\ send_logs[r].invoice_id = jobs[j].invoiceId
                            /\ send_logs[r].send_type = channel
                            /\ send_logs[r].status = "sent"

\* ------------------------------------------------------------------ C11
\* C11: when a job that was not skipped has ended, the send_status its last
\* write left on the invoice is 'sent' exactly when the handler returned
\* success and 'failed' exactly when an error propagated out of it; it is
\* never 'pending'.
C11_FinalStatus ==
  \A j \in JobIds :
    HasEnded(j) /\ jobs[j].result # "skipped" =>
      /\ jobs[j].send_status = "sent" <=>
           jobs[j].state = "completed" /\ jobs[j].result = "success"
      /\ jobs[j].send_status = "failed" <=> jobs[j].state = "failed"
      /\ jobs[j].send_status \in {"sent", "failed"}

\* one job returned success and a later job of the same invoice threw
C11_Witness ==
  \E j, k \in JobIds :
    /\ j < k /\ jobs[j].invoiceId = jobs[k].invoiceId
    /\ jobs[j].result = "success" /\ jobs[j].send_status = "sent"
    /\ jobs[k].state = "failed" /\ jobs[k].send_status = "failed"

\* ------------------------------------------------------------------ C12
\* C12: the token a delivery job mints for an invoice and stores as signed_url
\* is accepted by verifySignedUrl for that invoice at every time up to its
\* expiry.
C12_LinkAccepted ==
  \A f \in 1..Len(invoice_files) :
    now <= invoice_files[f].generated_at + DefaultExpiryDays * HoursPerDay
      => VerifySignedUrl(invoice_files[f].signed_url, invoice_files[f].invoice_id, now)

\* ------------------------------------------------------------------ C13
\* the instant a handed-out token expires
ExpiryOf(m) == m.at + m.expiryDays * HoursPerDay

\* C13: for every invoice id and every positive number of days, the token
\* generateSignedUrl returned verifies for that id at the instant it was made
\* and at every instant strictly before the days have elapsed.
C13_RoundTrip ==
  \A m \in minted :
    now < ExpiryOf(m) => VerifySignedUrl(m.token, m.invoiceId, now)

\* a token made earlier has been presented before its expiry and let through
C13_Witness ==
  \E m \in minted :
    /\ response.token = m.token /\ response.invoiceId = m.invoiceId
    /\ m.at < response.at /\ response.at < ExpiryOf(m)
    /\ response.status # 403

\* ------------------------------------------------------------------ C14
\* C14: at every instant after its expiry a generated token is refused, for
\* whichever invoice it is presented.
C14_ExpiredRefused ==
  \A m \in minted : \A invoiceId \in Ids :
    now > ExpiryOf(m) => ~VerifySignedUrl(m.token, invoiceId, now)

\* a token has been presented for its own invoice after its expiry
C14_Witness ==
  \E m \in minted :
    /\ response.token = m.token /\ response.invoiceId = m.invoiceId
    /\ response.at > ExpiryOf(m)
    /\ response.status = 403

\* ------------------------------------------------------------------ C15
\* C15: a token generated for one invoice is refused for every other invoice,
\* and a token whose encoded id, expiry or tag differs from what
\* generateSignedUrl produced is refused for every invoice.
C15_ForgeryRefused ==
  \A m \in minted :
    /\ \A invoiceId \in Ids \ {m.invoiceId} :
         ~VerifySignedUrl(m.token, invoiceId, now)
    /\ \A token \in Forgeries(m.token) \ Issued : \A invoiceId \in Ids :
         ~VerifySignedUrl(token, invoiceId, now)

\* before the expiry of a token, a forgery of it that names another invoice
\* and keeps the tag has been presented for that invoice
C15_Witness ==
  \E m \in minted :
    /\ response.token \in Forgeries(m.token) \ Issued
    /\ Part(Split(FromBase64(response.token)), 1) =
         Template(Num(response.invoiceId))
    /\ Part(Split(FromBase64(response.token)), 3) =
         Part(Split(FromBase64(m.token)), 3)
    /\ response.invoiceId # m.invoiceId
    /\ response.at < ExpiryOf(m)
    /\ response.status = 403

\* ------------------------------------------------------------------ C16
\* the token was handed out for this invoice and has not expired
Genuine(token, invoiceId, at) ==
  \E m \in minted :
    m.token = token /\ m.invoiceId = invoiceId /\ at <= ExpiryOf(m)

\* C16: a retrieval request whose token is missing, invalid or expired is
\* answered 403 with the one 'invalid or expired' message, on both endpoints,
\* whatever the reason and whether or not the invoice or a file row exists;
\* it is never answered with a 404 or with content.
C16_Refusal ==
  response.route # "none"
    /\ ~Genuine(response.token, response.invoiceId, response.at)
    => response.status = 403 /\ response.body = "invalid_or_expired"

\* the stored file of invoice 1 has been asked for with an expired token
C16_Witness ==
  \E m \in minted :
    /\ response.route = "pdf" /\ response.invoiceId = 1
    /\ invoice_files # << >>
    /\ response.token = m.token /\ m.invoiceId = 1
    /\ response.at > ExpiryOf(m)
    /\ response.status = 403

\* ------------------------------------------------------------------ C17
\* C17: add has returned an identifier to its caller for every job it was
\* handed, whatever the job's handler is doing: no caller is left waiting on
\* a handler.
C17_ReturnsAtOnce ==
  \A c \in 1..Len(added) : added[c].outcome = "resolved"

\* ------------------------------------------------------------------ C18
\* C18: a job added while a handler was registered has its handler invoked
\* exactly once, and when add has resolved the handler has returned and add
\* carries the job id and the value the handler returned.
C18_InlineRun ==
  \A c \in 1..Len(added) :
    added[c].registered =>
      /\ added[c].invoked = 1
      /\ added[c].outcome = "resolved" =>
           /\ added[c].handler = "returned"
           /\ added[c].result \in Results
           /\ added[c].result = added[c].returned
           /\ added[c].id <= now

\* two jobs run by the handler resolved with different results
C18_Witness ==
  \E c, d \in 1..Len(added) :
    /\ added[c].registered /\ added[d].registered
    /\ added[c].outcome = "resolved" /\ added[d].outcome = "resolved"
    /\ added[c].result # added[d].result

\* ------------------------------------------------------------------ C19
\* C19: a job added while no handler was registered is accepted with an
\* identifier and its handler is never invoked, not even once a handler has
\* been registered; the queue keeps no record from which it could run.
C19_LeftUnprocessed ==
  \A c \in 1..Len(added) :
    ~added[c].registered =>
      /\ added[c].outcome = "resolved" /\ added[c].id <= now
      /\ added[c].invoked = 0 /\ added[c].handler = "never"
      /\ added[c].result = "none"

\* a handler was registered after the job, and has run a later job to its end
C19_Witness ==
  \E c, d \in 1..Len(added) :
    /\ c < d /\ ~added[c].registered
    /\ processor # NoProcessor
    /\ added[d].handler = "returned"

\* ------------------------------------------------------------------ C20
\* C20: when the handler of a job throws, add rejects with the error the
\* handler threw; the job is never handed back to the caller as accepted or
\* completed.
C20_FailureSurfaced ==
  \A c \in 1..Len(added) :
    added[c].handler = "threw" =>
      /\ added[c].outcome = "rejected"
      /\ added[c].error = added[c].thrown /\ added[c].error \in Errors
      /\ added[c].result = "none"

\* one handler threw while another job's handler returned
C20_Witness ==
  \E c, d \in 1..Len(added) :
    /\ added[c].handler = "threw" /\ added[c].outcome = "rejected"
    /\ added[d].handler = "returned"

\* ------------------------------------------------------------------ C21
\* C21: at every moment the number of handler invocations in execution is at
\* most the concurrency handed to process(), however many calls of add overlap.
C21_ConcurrencyLimit ==
  processor # NoProcessor => Cardinality(Running) <= concurrency

\* ------------------------------------------------------------------ C22
\* C22: an add made after close() was called starts no handler execution,
\* and close() resolves only when no handler invocation is in flight.
C22_GracefulDrain ==
  /\ \A c \in 1..Len(added) : added[c].afterClose => added[c].invoked = 0
  /\ closed.called => closed.inflight = 0

\* ------------------------------------------------------------------ C23
\* C23: when a job without artifact (no PDF bytes, no link) asks the email
\* dispatcher to send, the message goes out to the selected provider without
\* attachment, whichever provider that is: sendgrid, mailgun or ses.
C23_DegradedEmail ==
  \A j \in JobIds : \A n \in CallsOf(j, "email") :
    /\ jobs[j].calls[n].op = "send"
    /\ ~jobs[j].calls[n].attachment
    => jobs[j].calls[n].transmitted

\* ------------------------------------------------------------------ C24
\* the email rows of invoice i a send request counts as a recent send
SentWithinHour(i) ==
  {r \in RowIds :
     /\ send_logs[r].invoice_id = i /\ send_logs[r].send_type = "email"
     /\ send_logs[r].status \in {"sent", "delivered"}
     /\ send_logs[r].created_at > now - LookbackHours}

\* C24: a POST /:id/send that finds an email row of the invoice 'sent' or
\* 'delivered' within the last hour answers without a job and without a write
\* to send_logs, invoice_files or the invoice; one that finds none goes on to
\* fetch the invoice and hands exactly one job to the queue when the invoice
\* exists, none (404) when it does not.
C24_SendIdempotent ==
  [][\A s \in Slots :
       /\ pc[s] = "idle" /\ pc'[s] = "s_recent" =>
            /\ SentWithinHour(req'[s].invoiceId) # {}
            /\ jobs' = jobs /\ UNCHANGED db
       /\ pc[s] = "s_recent" /\ pc'[s] # "s_recent" =>
            /\ pc'[s] = "idle"
            /\ jobs' = jobs /\ UNCHANGED db
       /\ pc[s] = "idle" /\ pc'[s] = "s_fetch" =>
            /\ SentWithinHour(req'[s].invoiceId) = {}
            /\ jobs' = jobs /\ UNCHANGED db
       /\ pc[s] = "s_fetch" /\ pc'[s] # "s_fetch" =>
            IF req[s].invoiceId \in 1..Len(invoices)
              THEN /\ Len(jobs') = Len(jobs) + 1
                   /\ jobs'[Len(jobs')].invoiceId = req[s].invoiceId
                   /\ req'[s].job = Len(jobs')
                   /\ UNCHANGED db
              ELSE /\ jobs' = jobs /\ pc'[s] = "idle"
                   /\ UNCHANGED db]_vars

\* a send request has found the 'sent' email row an earlier job left
C24_Witness ==
  \E s \in Slots :
    /\ pc[s] = "s_recent"
    /\ \E r \in SentWithinHour(req[s].invoiceId) :
         jobs[send_logs[r].job].state = "completed"

\* ------------------------------------------------------------------ C25
\* C25: within a job the SMS row is inserted only once every email row of the
\* job is 'sent'; a job whose email dispatch threw has no SMS row and has made
\* no call to the SMS dispatcher.
C25_EmailBeforeSms ==
  \A j \in JobIds :
    /\ RowsOf(j, "sms") # {} =>
         \A r \in RowsOf(j, "email") : send_logs[r].status = "sent"
    /\ Threw(j, "email") => RowsOf(j, "sms") = {} /\ CallsOf(j, "sms") = {}

\* one job holds a 'sent' email row and an SMS row, another failed in its
\* email dispatch
C25_Witness ==
  \E j, k \in JobIds :
    /\ RowsOf(j, "email") # {} /\ RowsOf(j, "sms") # {}
    /\ Threw(k, "email") /\ HasEnded(k)

\* ------------------------------------------------------------------ C26
StrictlyIncreasing(seq) ==
  \A m, n \in 1..Len(seq) : m < n => seq[m] < seq[n]

\* C26: the progress a job reports is a strictly increasing sequence of values
\* among 10, 25, 40, 70, 100; 70 is reported only with the email stage over
\* without error, 100 only with the SMS stage over; a job whose email
\* dispatch threw reports neither, and a skipped job reports nothing.
C26_Progress ==
  \A j \in JobIds :
    /\ StrictlyIncreasing(jobs[j].progress)
    /\ \A n \in 1..Len(jobs[j].progress) :
         jobs[j].progress[n] \in {10, 25, 40, 70, 100}
    /\ InProgress(j, 70) =>
         /\ ~Threw(j, "email")
         /\ \A r \in RowsOf(j, "email") : send_logs[r].status = "sent"
    /\ InProgress(j, 100) =>
         /\ InProgress(j, 70)
         /\ \A r \in RowsOf(j, "sms") : send_logs[r].status # "sending"
    /\ jobs[j].result = "skipped" => jobs[j].progress = << >>

\* one job has reported every stage, another stopped at 40 in its email stage
C26_Witness ==
  \E j, k \in JobIds :
    /\ jobs[j].progress = <<10, 25, 40, 70, 100>>
    /\ Threw(k, "email") /\ HasEnded(k)
    /\ jobs[k].progress[Len(jobs[k].progress)] = 40

C28_NoPreferences ==
  \A j \in JobIds :
    HasEnded(j) /\ ~jobs[j].prefs.found =>
      /\ jobs[j].result # "skipped"
      /\ InProgress(j, 10) /\ InProgress(j, 40)
      /\ Eligible(j, "email") => RowsOf(j, "email") # {}
      /\ jobs[j].state = "failed" =>
           \/ ~invoice_settings.present
           \/ Threw(j, "email")
           \/ ~flagColumns

\* a job without preference record stored its file and sent its email
C28_Witness ==
  \E j \in JobIds :
    /\ HasEnded(j) /\ ~jobs[j].prefs.found
    /\ jobs[j].result = "success" /\ FilesOf(j) # {}
    /\ \E r \in RowsOf(j, "email") : send_logs[r].status = "sent"

\* ------------------------------------------------------------------ C29
\* C29: a call of sendInvoiceSMS for an invalid number throws without anything
\* being transmitted to the SMS provider.
C29_InvalidNumber ==
  \A j \in JobIds : \A n \in CallsOf(j, "sms") :
    /\ jobs[j].calls[n].op = "send"
    /\ invoices[jobs[j].invoiceId].customerPhone = "invalid"
    => ~jobs[j].calls[n].transmitted /\ jobs[j].calls[n].threw

\* sendInvoiceSMS has been called for an invalid number, under either provider
C29_Witness ==
  \E j \in JobIds : \E n \in CallsOf(j, "sms") :
    /\ jobs[j].calls[n].op = "send"
    /\ invoices[jobs[j].invoiceId].customerPhone = "invalid"
    /\ HasEnded(j)

\* ------------------------------------------------------------------ C30
\* C30: when the email of a job was sent and its SMS dispatch failed on a
\* malformed number, the job ends with its email row 'sent', its SMS row
\* 'failed' with an error code, and the invoice's send_status 'sent'.
C30_SmsValidationFailure ==
  \A j \in JobIds :
    /\ HasEnded(j)
    /\ \E r \in RowsOf(j, "email") : send_logs[r].status = "sent"
    /\ invoices[jobs[j].invoiceId].customerPhone = "invalid"
    /\ \E n \in CallsOf(j, "sms") : jobs[j].calls[n].op = "send"
    => /\ \A r \in RowsOf(j, "email") : send_logs[r].status = "sent"
       /\ \A r \in RowsOf(j, "sms") :
            send_logs[r].status = "failed" /\ send_logs[r].error_code # "NULL"
       /\ jobs[j].send_status = "sent"

\* ------------------------------------------------------------------ C31
\* C31: the job of an invoice created through POST /api/invoices with
\* auto-send, email enabled and SMS disabled, in which no dispatcher call
\* threw, ends with exactly one email row, 'sent', exactly one invoice_files
\* row with a hash, send_status 'sent' and email_sent set.
C31_AutoSendHappyPath ==
  \A j \in JobIds :
    /\ jobs[j].items = "array" /\ HasEnded(j)
    /\ invoice_settings.email_enabled /\ ~invoice_settings.sms_enabled
    /\ ~Threw(j, "email")
    /\ jobs[j].result # "skipped"
    => /\ Cardinality(RowsOf(j, "email")) = 1
       /\ \A r \in RowsOf(j, "email") : send_logs[r].status = "sent"
       /\ Cardinality(FilesOf(j)) = 1
       /\ \A f \in FilesOf(j) : invoice_files[f].file_hash # 0
       /\ jobs[j].send_status = "sent"
       /\ invoices[jobs[j].invoiceId].email_sent

\* ------------------------------------------------------------------ C33
\* C33: every send_logs row with status 'failed' carries an error message,
\* whatever made it fail.
C33_ErrorDetail ==
  \A r \in RowIds :
    send_logs[r].status = "failed" => send_logs[r].error_message # "NULL"

\* ------------------------------------------------------------------ C34
\* C34: an invoice whose send_status is 'sent' has at least one send_logs row
\* with status 'sent'.
C34_SentMeansDelivered ==
  \A i \in 1..Len(invoices) :
    invoices[i].send_status = "sent" =>
      \E r \in RowIds :
        send_logs[r].invoice_id = i /\ send_logs[r].status = "sent"

\* ------------------------------------------------------------------ C35
\* C35: an invoice whose email_sent flag is set has an email row 'sent', and
\* one whose sms_sent flag is set has an SMS row 'sent': the row is marked
\* before the flag is set and stays so.
C35_FlagMeansRow ==
  \A i \in 1..Len(invoices) :
    /\ invoices[i].email_sent =>
         \E r \in RowIds : /\ send_logs[r].invoice_id = i
                           /\ send_logs[r].send_type = "email"
                           /\ send_logs[r].status = "sent"
    /\ invoices[i].sms_sent =>
         \E r \in RowIds : /\ send_logs[r].invoice_id = i
                           /\ send_logs[r].send_type = "sms"
                           /\ send_logs[r].status = "sent"

\* both flags of an invoice are set, and a later job of the invoice has failed
C35_Witness ==
  \E i \in 1..Len(invoices) : \E j \in JobIds :
    /\ invoices[i].email_sent /\ invoices[i].sms_sent
    /\ jobs[j].invoiceId = i /\ jobs[j].state = "failed"

\* ------------------------------------------------------------------ C36
\* C36: a job has an invoice_files row only after it rendered (progress 25),
\* stored and signed; the attachment handed to the email dispatcher and the
\* link handed to either dispatcher are there exactly when the job has
\* inserted its invoice_files row.
C36_ArtifactOrNothing ==
  \A j \in JobIds :
    /\ FilesOf(j) # {} =>
         /\ InProgress(j, 25)
         /\ \A f \in FilesOf(j) :
              /\ invoice_files[f].invoice_id = jobs[j].invoiceId
              /\ invoice_files[f].signed_url =
                   GenerateSignedUrl(PdfPath(jobs[j].invoiceId), DefaultExpiryDays,
                                     invoice_files[f].generated_at)
    /\ \A n \in 1..Len(jobs[j].calls) :
         /\ jobs[j].calls[n].link <=> FilesOf(j) # {}
         /\ jobs[j].calls[n].channel = "email" =>
              (jobs[j].calls[n].attachment <=> FilesOf(j) # {})

\* one job sent with attachment and link, another stored its bytes, had the
\* file record rejected and sent without
C36_Witness ==
  \E j, k \in JobIds :
    /\ FilesOf(j) # {}
    /\ \E n \in CallsOf(j, "email") :
         jobs[j].calls[n].op = "send" /\ jobs[j].calls[n].attachment
    /\ FilesOf(k) = {} /\ InProgress(k, 25)
    /\ \E n \in CallsOf(k, "email") :
         jobs[k].calls[n].op = "send" /\ ~jobs[k].calls[n].attachment

\* ------------------------------------------------------------------ C37
\* the invoice_files row GET /:id/pdf serves for invoice i: the latest one
LatestFile(i) ==
  CHOOSE f \in 1..Len(invoice_files) :
    /\ invoice_files[f].invoice_id = i
    /\ \A g \in 1..Len(invoice_files) :
         invoice_files[g].invoice_id = i => g <= f

\* C37: the latest invoice_files row of an invoice carries the hash of the
\* bytes now stored under the invoice's file name.
C37_HashMatchesBytes ==
  \A i \in 1..Len(invoices) :
    (\E f \in 1..Len(invoice_files) : invoice_files[f].invoice_id = i) =>
      invoice_files[LatestFile(i)].file_hash = storage[i]

\* ------------------------------------------------------------------ C39
\* C39: the request that created an invoice is answered 201 when its auto-send
\* job has ended, whether the job returned or threw.
C39_CreatedAnyway ==
  \A j \in JobIds :
    jobs[j].items = "array" /\ HasEnded(j) => jobs[j].http = 201

\* ------------------------------------------------------------------ C40
\* C40: when a job has ended, returned or thrown, none of the send_logs rows
\* it inserted is still 'sending'.
C40_NoRowLeftSending ==
  \A j \in JobIds :
    HasEnded(j) =>
      \A r \in RowIds : send_logs[r].job = j => send_logs[r].status # "sending"

\* a job has ended with a 'sent' email row and a 'failed' SMS row
C40_Witness ==
  \E j \in JobIds :
    /\ HasEnded(j)
    /\ \E r \in RowsOf(j, "email") : send_logs[r].status = "sent"
    /\ \E r \in RowsOf(j, "sms") : send_logs[r].status = "failed"

====
